---- MODULE Spec2Model ----
(***************************************************************************)
(* Model of the node sourcing pipeline of gatsby-source-wordpress-         *)
(* experimental: fetchAndCreateAllNodes (fetch-nodes.js) drives            *)
(* fetchWPGQLContentNodesByContentType, then                               *)
(* createGatsbyNodesFromWPGQLContentNodes (create-nodes.js), then          *)
(* cache.set(CREATED_NODE_IDS, ...).                                       *)
(* fetch-nodes.js is the file src/unnamed/part_000.                        *)
(*                                                                         *)
(* JavaScript runs one callback at a time: every action below is the code  *)
(* that runs between two suspension points (the return or rejection of an  *)
(* awaited external call).                                                 *)
(***************************************************************************)
EXTENDS Integers, Sequences, FiniteSets, TLC

VARIABLES
    settings,       \* nodeQueries[t].settings: exclude, lazyNodes, beforeChangeNode
    env,            \* process.env.GATSBY_CONCURRENT_DOWNLOAD (NoEnv when unset)
    pc,             \* position of fetchAndCreateAllNodes
    batchIdx,       \* number of chunks of chunkedQueries already started
    fetch,          \* per type: state of its queries.map callback
    contentNodeGroups, \* the array filled by fetchWPGQLContentNodesByContentType
    units,          \* the tasks handed to createNodesQueue.add, in add order
    ust,            \* per unit: queued, hook, createNode, done, failed
    started,        \* unit indices in the order p-queue started them
    createdNodeIds, \* the ledger array of create-nodes.js:146
    totalSideEffectNodes, \* create-nodes.js:147
    referencedMediaItemNodeIds, \* the Set of create-nodes.js:148, in insertion order
    fetchCalls,     \* per type: number of paginatedWpNodeFetch calls issued
    fetchBatch,     \* per type: the chunk in which its fetch was issued (0: never)
    expansionCalls, \* calls of fetchReferencedMediaItemsAndCreateNodes
    expansionArg,   \* the array passed to it
    cacheSetCalls,  \* calls of cache.set(CREATED_NODE_IDS, ...)
    cacheArg,       \* the array passed to it
    returned,       \* per type: what each of its list queries resolved to, in order
    calls           \* per unit: hook and createNode calls made, hook results received

vars == <<settings, env, pc, batchIdx, fetch, contentNodeGroups, units, ust,
          started, createdNodeIds, totalSideEffectNodes,
          referencedMediaItemNodeIds, fetchCalls, fetchBatch, expansionCalls,
          expansionArg, cacheSetCalls, cacheArg, returned, calls>>

(***************************************************************************)
(* Bounds and program constants                                            *)
(***************************************************************************)
\* largest value of GATSBY_CONCURRENT_DOWNLOAD that is enumerated
MaxChunkEnv == 2

\* the env variable is not set
NoEnv == -1

\* fetch-nodes.js: process.env.GATSBY_CONCURRENT_DOWNLOAD || 50
DefaultChunkSize == 50

\* create-nodes.js: new PQueue({ concurrency: 2 })
Concurrency == 2

Range(s) == {s[i] : i \in 1..Len(s)}

Max(a, b) == IF a >= b THEN a ELSE b

Min(a, b) == IF a <= b THEN a ELSE b

Count(s, x) == Cardinality({i \in 1..Len(s) : s[i] = x})

(***************************************************************************)
(* The query catalog (store.getState().remoteSchema.nodeQueries), in       *)
(* Object.values order.                                                    *)
(***************************************************************************)
CatalogOrder == <<"Post", "MediaItem", "Page", "Tag">>

TypeNames == Range(CatalogOrder)

pluralName(t) ==
    CASE t = "Post" -> "posts"
      [] t = "MediaItem" -> "mediaItems"
      [] t = "Page" -> "pages"
      [] OTHER -> "tags"

\* queryInfo.nodeListQueries: normally one query, more through the settings api
nodeListQueries(t) == IF t = "Post" THEN <<"q1", "q2">> ELSE <<"q1">>

\* the types a beforeChangeNode hook may be configured for
HookableTypes == {"Post"}


(***************************************************************************)
(* Raw records.  A record is its id, its type discriminator and the        *)
(* objects of its serialization, in serialization order (the record's own  *)
(* top-level object included); an object is the value of its "id" key and  *)
(* the set of its keys.                                                    *)
(***************************************************************************)
Obj(id, keys) == [id |-> id, keys |-> keys]

Rec(id, type, objs) == [id |-> id, type |-> type, objs |-> objs]

p1 == Rec("p1", "Post",
          <<Obj("m1", {"id", "sourceUrl"}),
            Obj("p1", {"id", "sourceUrl"}),
            Obj("p1", {"id", "link", "type"})>>)

p2 == Rec("p2", "Post",
          <<Obj("m1", {"altText", "id", "sourceUrl"}),
            Obj("m2", {"id", "mediaDetails", "sourceUrl"}),
            Obj("p2", {"id", "link", "type"})>>)

g1 == Rec("g1", "Page",
          <<Obj("m2", {"id", "sourceUrl"}),
            Obj("g1", {"id", "link", "type"})>>)

t1 == Rec("t1", "Tag",
          <<Obj("g1", {"id", "sourceUrl"}),
            Obj("t1", {"id", "type"})>>)

md1 == Rec("m1", "MediaItem",
           <<Obj("m1", {"id", "sourceUrl", "type"})>>)

\* what paginatedWpNodeFetch may resolve to for list query q of type t
RemoteResults(t, q) ==
    CASE t = "Post" /\ q = "q1" -> {<<p1>>}
      [] t = "Post" /\ q = "q2" -> {<<p2>>}
      [] t = "Page" -> {<<g1>>}
      [] t = "Tag" -> {<<>>, <<t1>>}
      [] t = "MediaItem" -> {<<md1>>}
      [] OTHER -> {<<>>}

\* what a beforeChangeNode hook may resolve to (additionalNodeIds; <<>> stands
\* for undefined, {} and { additionalNodeIds: [] }, which the code treats alike)
HookResults == {<<>>, <<"a", "b">>}

(***************************************************************************)
(* fast-json-stable-stringify and the execall scan                         *)
(***************************************************************************)
\* the keys of the records above, in the order stable stringify sorts them
KeyOrder == <<"altText", "id", "link", "mediaDetails", "sourceUrl", "type">>

Tok(key, val) == [key |-> key, val |-> val]

\* one object: "{", its keys in sorted order (the id key with its value), "}"
ObjTokens(o) ==
    LET ks == SelectSeq(KeyOrder, LAMBDA k : k \in o.keys)
    IN  <<Tok("{", "")>>
        \o [i \in 1..Len(ks) |-> Tok(ks[i], IF ks[i] = "id" THEN o.id ELSE "")]
        \o <<Tok("}", "")>>

RECURSIVE Flatten(_)
Flatten(ss) == IF ss = <<>> THEN <<>> ELSE Head(ss) \o Flatten(Tail(ss))

\* stringify(node)
stringify(node) == Flatten([i \in 1..Len(node.objs) |-> ObjTokens(node.objs[i])])

\* execall(/"id":"([^"]*)","sourceUrl"/gm, nodeString).map(m => m.subMatches[0])
execall(nodeString) ==
    LET hits == SelectSeq([i \in 1..Len(nodeString) |-> i],
                          LAMBDA i : /\ i < Len(nodeString)
                                     /\ nodeString[i].key = "id"
                                     /\ nodeString[i + 1].key = "sourceUrl")
    IN  [j \in 1..Len(hits) |-> nodeString[hits[j]].val]

\* mutant: the filter on the record's own id is lost
matchedIds_Unfiltered(node) == execall(stringify(node))

\* .filter(id => id !== node.id)
matchedIds(node) == SelectSeq(execall(stringify(node)), LAMBDA id : id # node.id)

\* mutant: an array in place of the Set, every match is kept
SetAdd_Array(set, id) == Append(set, id)

\* Set.prototype.add on a Set kept in insertion order
SetAdd(set, id) == IF id \in Range(set) THEN set ELSE Append(set, id)

RECURSIVE AddAll(_, _)
AddAll(set, ids) ==
    IF ids = <<>> THEN set ELSE AddAll(SetAdd(set, Head(ids)), Tail(ids))

\* pluginOptions.type.MediaItem.lazyNodes
MediaItemLazyNodes == settings["MediaItem"].lazyNodes

\* mutant: the lazyNodes test of the scan is inverted
ScansReferences_WhenLazy(plural) == plural # "mediaItems" /\ MediaItemLazyNodes

\* create-nodes.js:46 and :55, the two conditions under which a unit scans
ScansReferences(plural) == plural # "mediaItems" /\ ~MediaItemLazyNodes

\* mutant: every unit fills a Set of its own
Scan_OwnSet(set, node, plural) ==
    IF ScansReferences(plural) THEN AddAll(<<>>, matchedIds(node)) ELSE set

\* the reference set after the scan of one unit
Scan(set, node, plural) ==
    IF ScansReferences(plural) THEN AddAll(set, matchedIds(node)) ELSE set

(***************************************************************************)
(* fetch-nodes.js                                                          *)
(***************************************************************************)
\* mutant: the exclude filter is lost
getContentTypeQueryInfos_Unfiltered == CatalogOrder

\* getContentTypeQueryInfos: the catalog without the excluded types
getContentTypeQueryInfos ==
    SelectSeq(CatalogOrder, LAMBDA t : ~settings[t].exclude)

\* process.env.GATSBY_CONCURRENT_DOWNLOAD || 50, as lodash chunk reads it
chunkSize == IF env = NoEnv THEN DefaultChunkSize ELSE Max(env, 0)

\* lodash chunk(array, size)
chunk(array, size) ==
    IF size < 1 \/ array = <<>> THEN <<>>
    ELSE [b \in 1..((Len(array) + size - 1) \div size) |->
            SubSeq(array, (b - 1) * size + 1, Min(b * size, Len(array)))]

\* mutant: the lazy and media types are filtered out before chunking
chunkedQueries_FilterFirst ==
    chunk(SelectSeq(getContentTypeQueryInfos,
                    LAMBDA t : ~(settings[t].lazyNodes \/ t = "MediaItem")),
          chunkSize)

\* fetch-nodes.js:92-95: the chunks are cut from the exclude-filtered catalog
chunkedQueries == chunk(getContentTypeQueryInfos, chunkSize)

\* mutant: the media clause of the early return is lost
SkipsFetch_LazyOnly(t) == settings[t].lazyNodes

\* fetch-nodes.js:100-108, the types the map callback returns early for
SkipsFetch(t) ==
    \/ settings[t].lazyNodes
    \/ (~settings[t].lazyNodes /\ t = "MediaItem")

\* mutant: the chunk is joined with Promise.race, its first settled fetch
\* lets the loop go on
BatchJoined_Race ==
    \/ batchIdx = 0
    \/ \A t \in TypeNames : fetchBatch[t] # batchIdx
    \/ \E t \in TypeNames : fetchBatch[t] = batchIdx /\ fetch[t].st # "inflight"

\* mutant: the chunk's Promise.all is not awaited
BatchJoined_NotAwaited == TRUE

\* Promise.all of the current chunk has resolved
BatchJoined ==
    \A t \in TypeNames : fetchBatch[t] = batchIdx => fetch[t].st # "inflight"

InFlightFetches == {t \in TypeNames : fetch[t].st = "inflight"}


SettingsOf(t) ==
    [exclude : BOOLEAN, lazyNodes : BOOLEAN,
     beforeChangeNode : IF t \in HookableTypes THEN BOOLEAN ELSE {FALSE}]

Init ==
    /\ settings \in {f \in [TypeNames -> [exclude : BOOLEAN, lazyNodes : BOOLEAN,
                                          beforeChangeNode : BOOLEAN]] :
                        \A t \in TypeNames : f[t] \in SettingsOf(t)}
    /\ env \in {NoEnv} \cup 0..MaxChunkEnv
    /\ pc = "fetching"
    /\ batchIdx = 0
    /\ fetch = [t \in TypeNames |-> [st |-> "idle", q |-> 0, nodes |-> <<>>]]
    /\ contentNodeGroups = <<>>
    /\ units = <<>>
    /\ ust = <<>>
    /\ started = <<>>
    /\ createdNodeIds = <<>>
    /\ totalSideEffectNodes = <<>>
    /\ referencedMediaItemNodeIds = <<>>
    /\ fetchCalls = [t \in TypeNames |-> 0]
    /\ fetchBatch = [t \in TypeNames |-> 0]
    /\ expansionCalls = 0
    /\ expansionArg = <<>>
    /\ cacheSetCalls = 0
    /\ cacheArg = <<>>
    /\ returned = [t \in TypeNames |-> <<>>]
    /\ calls = <<>>

materialization == <<units, ust, started, createdNodeIds, totalSideEffectNodes,
                     referencedMediaItemNodeIds, calls>>

driverTail == <<expansionCalls, expansionArg, cacheSetCalls, cacheArg>>

\* the map callback of one type up to its first await (fetch-nodes.js:99-110,
\* 14-33): return early, or issue the first list query
MapCallback(t) ==
    IF SkipsFetch(t) THEN [st |-> "skipped", q |-> 0, nodes |-> <<>>]
    ELSE IF nodeListQueries(t) = <<>> THEN [st |-> "done", q |-> 0, nodes |-> <<>>]
    ELSE [st |-> "inflight", q |-> 1, nodes |-> <<>>]

\* for (const queries of chunkedQueries) Promise.all(queries.map(...)): the
\* synchronous start of the next chunk
StartBatch ==
    /\ pc = "fetching"
    /\ BatchJoined
    /\ batchIdx < Len(chunkedQueries)
    /\ LET queries == Range(chunkedQueries[batchIdx + 1])
       IN  /\ fetch' = [t \in TypeNames |->
                          IF t \in queries THEN MapCallback(t) ELSE fetch[t]]
           /\ fetchCalls' = [t \in TypeNames |->
                               IF t \in queries /\ MapCallback(t).st = "inflight"
                               THEN fetchCalls[t] + 1 ELSE fetchCalls[t]]
           /\ fetchBatch' = [t \in TypeNames |->
                               IF t \in queries THEN batchIdx + 1 ELSE fetchBatch[t]]
    /\ batchIdx' = batchIdx + 1
    /\ UNCHANGED <<settings, env, pc, contentNodeGroups, returned, materialization,
                   driverTail>>

\* mutant: the pages of a later list query replace those of the earlier ones
Accumulate_Overwrite(allNodesOfContentType, contentNodes) == contentNodes

\* fetch-nodes.js:45: allNodesOfContentType = [...allNodesOfContentType, ...contentNodes]
Accumulate(allNodesOfContentType, contentNodes) ==
    allNodesOfContentType \o contentNodes

\* paginatedWpNodeFetch resolves for the current list query of type t
\* (fetch-nodes.js:33-60 and 110-114)
FetchReturn(t) ==
    /\ fetch[t].st = "inflight"
    /\ \E contentNodes \in RemoteResults(t, nodeListQueries(t)[fetch[t].q]) :
         LET allNodesOfContentType == Accumulate(fetch[t].nodes, contentNodes)
         IN  /\ returned' = [returned EXCEPT ![t] = Append(@, contentNodes)]
             /\ IF fetch[t].q < Len(nodeListQueries(t))
                THEN /\ fetch' = [fetch EXCEPT ![t] =
                                    [st |-> "inflight", q |-> fetch[t].q + 1,
                                     nodes |-> allNodesOfContentType]]
                     /\ fetchCalls' = [fetchCalls EXCEPT ![t] = @ + 1]
                     /\ UNCHANGED contentNodeGroups
                ELSE /\ fetch' = [fetch EXCEPT ![t] =
                                    [st |-> "done", q |-> fetch[t].q,
                                     nodes |-> allNodesOfContentType]]
                     /\ UNCHANGED fetchCalls
                     /\ contentNodeGroups' =
                          IF Len(allNodesOfContentType) > 0
                          THEN Append(contentNodeGroups,
                                      [singular |-> t, plural |-> pluralName(t),
                                       allNodesOfContentType |-> allNodesOfContentType])
                          ELSE contentNodeGroups
    /\ UNCHANGED <<settings, env, pc, batchIdx, fetchBatch, materialization, driverTail>>

\* mutant: the map callback catches the rejection and the run goes on
RejectionLeaves_Caught(p) == p

\* no try/catch between paginatedWpNodeFetch and the caller of
\* fetchAndCreateAllNodes: the first rejection of a chunk ends the run
RejectionLeaves(p) == IF p = "fetching" THEN "failed" ELSE p

\* paginatedWpNodeFetch rejects: Promise.all rejects at once and the rejection
\* leaves fetchAndCreateAllNodes; the chunk's other fetches stay in flight
FetchReject(t) ==
    /\ fetch[t].st = "inflight"
    /\ fetch' = [fetch EXCEPT ![t].st = "failed"]
    /\ pc' = RejectionLeaves(pc)
    /\ UNCHANGED <<settings, env, batchIdx, contentNodeGroups, fetchCalls,
                   fetchBatch, returned, materialization, driverTail>>

\* the last chunk has joined: fetchWPGQLContentNodesByContentType returns and
\* createGatsbyNodesFromWPGQLContentNodes awaits fetchGraphql (generalSettings)
FetchingDone ==
    /\ pc = "fetching"
    /\ BatchJoined
    /\ batchIdx = Len(chunkedQueries)
    /\ pc' = "generalSettings"
    /\ UNCHANGED <<settings, env, batchIdx, fetch, contentNodeGroups, fetchCalls,
                   fetchBatch, returned, materialization, driverTail>>


(***************************************************************************)
(* create-nodes.js: the p-queue and the materialization units              *)
(***************************************************************************)
\* the tasks of the two nested for loops (create-nodes.js:150-169), in add order
RECURSIVE UnitsOf(_)
UnitsOf(groups) ==
    IF groups = <<>> THEN <<>>
    ELSE LET g == Head(groups)
         IN  [i \in 1..Len(g.allNodesOfContentType) |->
                [node |-> g.allNodesOfContentType[i], plural |-> g.plural]]
             \o UnitsOf(Tail(groups))

\* p-queue's pending count: the tasks started and not yet settled
PendingCount(u) == Cardinality({i \in 1..Len(u) : u[i] \in {"hook", "createNode"}})

Queued(u) == {i \in 1..Len(u) : u[i] = "queued"}

\* mutant: the concurrency test is off by one
CanStart_OffByOne(u) == Queued(u) # {} /\ PendingCount(u) <= Concurrency

\* p-queue starts a queued task only below the concurrency limit
CanStart(u) == Queued(u) # {} /\ PendingCount(u) < Concurrency

\* typeof typeSettings?.beforeChangeNode === `function`
HasHook(node) == settings[node.type].beforeChangeNode

\* mutant: the hook is called but not awaited, createNode is called at once
StartUnit_HookNotAwaited(q, all, i) ==
    [ust |-> [q.ust EXCEPT ![i] = "createNode"],
     refs |-> Scan(q.refs, all[i].node, all[i].plural),
     started |-> Append(q.started, i),
     calls |-> [q.calls EXCEPT ![i] =
                  [@ EXCEPT !.hook = IF HasHook(all[i].node) THEN @ + 1 ELSE @,
                            !.createNode = @ + 1]]]

\* createNodeWithSideEffects up to its first await (create-nodes.js:36-107):
\* the scan, then the hook call or, without a hook, the createNode call
StartUnit(q, all, i) ==
    [ust |-> [q.ust EXCEPT ![i] =
                 IF HasHook(all[i].node) THEN "hook" ELSE "createNode"],
     refs |-> Scan(q.refs, all[i].node, all[i].plural),
     started |-> Append(q.started, i),
     calls |-> [q.calls EXCEPT ![i] =
                  IF HasHook(all[i].node)
                  THEN [@ EXCEPT !.hook = @ + 1]
                  ELSE [@ EXCEPT !.createNode = @ + 1]]]

\* mutant: the queue hands out the newest queued task first
TryToStartAnother_Newest(q, all) ==
    IF CanStart(q.ust)
    THEN StartUnit(q, all, CHOOSE i \in Queued(q.ust) : \A j \in Queued(q.ust) : i >= j)
    ELSE q

\* mutant: a settled task never hands its slot to a queued one
TryToStartAnother_Never(q, all) == q

\* the oldest queued task is started if a slot is free
StartOldest(s, all) ==
    IF CanStart(s.ust)
    THEN StartUnit(s, all, CHOOSE i \in Queued(s.ust) : \A j \in Queued(s.ust) : i <= j)
    ELSE s

\* p-queue _tryToStartAnother on the queue state q (q is evaluated once, as
\* the bound s)
TryToStartAnother(q, all) == CHOOSE r \in {StartOldest(s, all) : s \in {q}} : TRUE

\* a unit that was added and has not started: nothing was called for it
NoCalls == [hook |-> 0, createNode |-> 0, hookReturned |-> <<>>]

\* createNodesQueue.add for every unit in turn: enqueue, then try to start
RECURSIVE AddEach(_, _, _)
AddEach(q, all, k) ==
    IF k > Len(all) THEN q
    ELSE AddEach(TryToStartAnother([q EXCEPT !.ust = Append(@, "queued"),
                                             !.calls = Append(@, NoCalls)],
                                   all),
                 all, k + 1)

QueueState == [ust |-> ust, refs |-> referencedMediaItemNodeIds, started |-> started,
               calls |-> calls]

\* mutant: a rejected task stops the queue, nothing more is started
Settle_StopOnFailure(newUst) ==
    LET q == IF \E i \in 1..Len(newUst) : newUst[i] = "failed"
             THEN [QueueState EXCEPT !.ust = newUst]
             ELSE TryToStartAnother([QueueState EXCEPT !.ust = newUst], units)
    IN  /\ ust' = q.ust
        /\ referencedMediaItemNodeIds' = q.refs
        /\ started' = q.started
        /\ calls' = q.calls

\* a unit settled (its state is newUst): p-queue's _next frees the slot and
\* starts the next queued unit
Settle(newUst) ==
    LET q == TryToStartAnother([QueueState EXCEPT !.ust = newUst], units)
    IN  /\ ust' = q.ust
        /\ referencedMediaItemNodeIds' = q.refs
        /\ started' = q.started
        /\ calls' = q.calls

orchestrator == <<settings, env, batchIdx, fetch, contentNodeGroups, fetchCalls,
                  fetchBatch, returned>>

\* fetchGraphql (generalSettings) resolves: the scheduling loops run, p-queue
\* starts the first units, and the function awaits createNodesQueue.onIdle()
GeneralSettingsReturn ==
    /\ pc = "generalSettings"
    /\ LET all == UnitsOf(contentNodeGroups)
           q == AddEach([ust |-> <<>>, refs |-> <<>>, started |-> <<>>,
                         calls |-> <<>>], all, 1)
       IN  /\ units' = all
           /\ ust' = q.ust
           /\ referencedMediaItemNodeIds' = q.refs
           /\ started' = q.started
           /\ calls' = q.calls
    /\ pc' = "onIdle"
    /\ UNCHANGED <<orchestrator, createdNodeIds, totalSideEffectNodes, driverTail>>

GeneralSettingsReject ==
    /\ pc = "generalSettings"
    /\ pc' = "failed"
    /\ UNCHANGED <<orchestrator, materialization, driverTail>>

\* mutant: the ledger is kept free of duplicates
Push_Dedup(ledger, ids) == AddAll(ledger, ids)

\* Array.prototype.push, for each id in turn, on the ledger
Push(ledger, ids) == ledger \o ids

\* beforeChangeNode resolves (create-nodes.js:82-107): its additionalNodeIds
\* go to the ledger, then createNode is called
HookReturn(i) ==
    /\ i \in 1..Len(ust)
    /\ ust[i] = "hook"
    /\ \E additionalNodeIds \in HookResults :
         /\ createdNodeIds' = Push(createdNodeIds, additionalNodeIds)
         /\ totalSideEffectNodes' = Push(totalSideEffectNodes, additionalNodeIds)
         /\ calls' = [calls EXCEPT ![i].hookReturned = Append(@, additionalNodeIds),
                                   ![i].createNode = @ + 1]
    /\ ust' = [ust EXCEPT ![i] = "createNode"]
    /\ UNCHANGED <<orchestrator, pc, units, started, referencedMediaItemNodeIds,
                   driverTail>>

\* beforeChangeNode rejects: the task rejects, nothing awaits the promise
\* createNodesQueue.add returned, and the queue goes on
HookReject(i) ==
    /\ i \in 1..Len(ust)
    /\ ust[i] = "hook"
    /\ Settle([ust EXCEPT ![i] = "failed"])
    /\ UNCHANGED <<orchestrator, pc, units, createdNodeIds, totalSideEffectNodes,
                   driverTail>>

\* actions.createNode resolves (create-nodes.js:107-110)
CreateNodeReturn(i) ==
    /\ i \in 1..Len(ust)
    /\ ust[i] = "createNode"
    /\ createdNodeIds' = Push(createdNodeIds, <<units[i].node.id>>)
    /\ Settle([ust EXCEPT ![i] = "done"])
    /\ UNCHANGED <<orchestrator, pc, units, totalSideEffectNodes, driverTail>>

\* actions.createNode rejects
CreateNodeReject(i) ==
    /\ i \in 1..Len(ust)
    /\ ust[i] = "createNode"
    /\ Settle([ust EXCEPT ![i] = "failed"])
    /\ UNCHANGED <<orchestrator, pc, units, createdNodeIds, totalSideEffectNodes,
                   driverTail>>

\* mutant: onEmpty in place of onIdle, the running units are not waited for
QueueIsIdle_OnEmpty == Queued(ust) = {}

\* createNodesQueue.onIdle(): the queue is empty and nothing is pending
QueueIsIdle == Queued(ust) = {} /\ PendingCount(ust) = 0

\* mutant: the length test of the expansion condition is lost
RunsExpansion_NoLengthTest(refs) == ~MediaItemLazyNodes

\* create-nodes.js:179-182
RunsExpansion(refs) == ~MediaItemLazyNodes /\ Len(refs) > 0

\* onIdle resolves (create-nodes.js:171-190, fetch-nodes.js:155-160): either the
\* expansion pass is called, or the ledger is returned and handed to cache.set
QueueIdle ==
    /\ pc = "onIdle"
    /\ QueueIsIdle
    /\ IF RunsExpansion(referencedMediaItemNodeIds)
       THEN /\ pc' = "expanding"
            /\ expansionCalls' = expansionCalls + 1
            /\ expansionArg' = referencedMediaItemNodeIds
            /\ UNCHANGED <<cacheSetCalls, cacheArg>>
       ELSE /\ pc' = "cacheSet"
            /\ cacheSetCalls' = cacheSetCalls + 1
            /\ cacheArg' = createdNodeIds
            /\ UNCHANGED <<expansionCalls, expansionArg>>
    /\ UNCHANGED <<orchestrator, materialization>>

\* fetchReferencedMediaItemsAndCreateNodes resolves: the ledger and the
\* referenced ids are returned and handed to cache.set
ExpansionReturn ==
    /\ pc = "expanding"
    /\ pc' = "cacheSet"
    /\ cacheSetCalls' = cacheSetCalls + 1
    /\ cacheArg' = createdNodeIds \o expansionArg
    /\ UNCHANGED <<orchestrator, materialization, expansionCalls, expansionArg>>

ExpansionReject ==
    /\ pc = "expanding"
    /\ pc' = "failed"
    /\ UNCHANGED <<orchestrator, materialization, driverTail>>

CacheSetReturn ==
    /\ pc = "cacheSet"
    /\ pc' = "done"
    /\ UNCHANGED <<orchestrator, materialization, driverTail>>

CacheSetReject ==
    /\ pc = "cacheSet"
    /\ pc' = "failed"
    /\ UNCHANGED <<orchestrator, materialization, driverTail>>

Next ==
    \/ StartBatch
    \/ \E t \in TypeNames : FetchReturn(t)
    \/ \E t \in TypeNames : FetchReject(t)
    \/ FetchingDone
    \/ GeneralSettingsReturn
    \/ GeneralSettingsReject
    \/ \E i \in 1..Len(ust) : HookReturn(i)
    \/ \E i \in 1..Len(ust) : HookReject(i)
    \/ \E i \in 1..Len(ust) : CreateNodeReturn(i)
    \/ \E i \in 1..Len(ust) : CreateNodeReject(i)
    \/ QueueIdle
    \/ ExpansionReturn
    \/ ExpansionReject
    \/ CacheSetReturn
    \/ CacheSetReject

Spec == Init /\ [][Next]_vars


(***************************************************************************)
(* Shared vocabulary of the properties                                     *)
(***************************************************************************)
Settled(i) == ust[i] \in {"done", "failed"}

AllUnitsSettled == \A i \in 1..Len(ust) : Settled(i)

SomeUnitFailed == \E i \in 1..Len(ust) : ust[i] = "failed"

NoHooks == \A t \in TypeNames : ~settings[t].beforeChangeNode

\* the index of the chunk of chunkedQueries that holds type t (0: none)
BatchOf(t) ==
    IF \E b \in 1..Len(chunkedQueries) : t \in Range(chunkedQueries[b])
    THEN CHOOSE b \in 1..Len(chunkedQueries) : t \in Range(chunkedQueries[b])
    ELSE 0

\* onIdle has resolved and the function went on to the expansion decision
IdleDecided == expansionCalls + cacheSetCalls > 0

\* the ids the reference pattern matches in the non-media records scheduled
ReferencedByRecords ==
    UNION {Range(matchedIds(units[i].node)) :
             i \in {j \in 1..Len(units) : units[j].plural # "mediaItems"}}

RecordIds == {units[i].node.id : i \in 1..Len(units)}

(***************************************************************************)
(* C1                                                                      *)
(***************************************************************************)
\* C1: stage ordering.  A unit has started only if every chunk was started and
\* every type-level fetch has completed; the expansion pass was called only
\* with every scheduled unit settled and with the reference set as it is then;
\* cache.set was called only after the expansion pass, where one was due, had
\* been called and had returned.
C1_StageOrdering ==
    /\ started # <<>> =>
         /\ batchIdx = Len(chunkedQueries)
         /\ \A t \in TypeNames :
              BatchOf(t) # 0 => fetch[t].st \in {"done", "skipped"}
    /\ expansionCalls > 0 =>
         /\ Len(ust) = Len(UnitsOf(contentNodeGroups))
         /\ AllUnitsSettled
         /\ expansionArg = referencedMediaItemNodeIds
    /\ cacheSetCalls > 0 =>
         /\ AllUnitsSettled
         /\ pc \in {"cacheSet", "done", "failed"}
         /\ (~MediaItemLazyNodes /\ referencedMediaItemNodeIds # <<>>)
              => expansionCalls = 1

\* a run through all three stages: two chunks, three units, an expansion pass
C1_Witness ==
    /\ pc = "done"
    /\ batchIdx >= 2
    /\ Len(started) >= 3
    /\ expansionCalls = 1
    /\ cacheSetCalls = 1

(***************************************************************************)
(* C2                                                                      *)
(***************************************************************************)
\* C2: when a materialization unit has failed (its hook or its createNode call
\* rejected), the expansion pass is not started and CREATED_NODE_IDS is not
\* written.
C2_UnitFailureFailsRun ==
    SomeUnitFailed => (expansionCalls = 0 /\ cacheSetCalls = 0 /\ pc # "done")

(***************************************************************************)
(* C3                                                                      *)
(***************************************************************************)
\* C3: no fetch is ever issued for a type whose settings.exclude is true: its
\* map callback never runs and paginatedWpNodeFetch is never called for it.
C3_ExcludedNeverFetched ==
    \A t \in TypeNames :
        settings[t].exclude =>
            /\ fetchCalls[t] = 0
            /\ fetch[t].st = "idle"
            /\ \A k \in 1..Len(contentNodeGroups) :
                 contentNodeGroups[k].plural # pluralName(t)

\* a finished run with an excluded type next to types that were fetched
C3_Witness ==
    /\ pc = "done"
    /\ settings["Page"].exclude
    /\ fetchCalls["Post"] = 2
    /\ fetchCalls["Tag"] = 1

(***************************************************************************)
(* C4                                                                      *)
(***************************************************************************)
\* C4: the orchestrator issues no fetch for a lazy type and none for MediaItem,
\* lazy or not, and no mediaItems group reaches the materialization engine.
C4_LazyAndMediaNeverFetched ==
    /\ \A t \in TypeNames :
         (settings[t].lazyNodes \/ t = "MediaItem") => fetchCalls[t] = 0
    /\ \A k \in 1..Len(contentNodeGroups) :
         contentNodeGroups[k].plural # "mediaItems"
    /\ \A i \in 1..Len(units) : units[i].plural # "mediaItems"

\* the chunk of a non-lazy MediaItem and of a lazy type has run, next to a
\* type that was fetched
C4_Witness ==
    /\ pc = "done"
    /\ ~settings["MediaItem"].exclude /\ ~settings["MediaItem"].lazyNodes
    /\ fetch["MediaItem"].st = "skipped"
    /\ settings["Page"].lazyNodes /\ fetch["Page"].st = "skipped"
    /\ fetchCalls["Post"] = 2


(***************************************************************************)
(* C5                                                                      *)
(***************************************************************************)
\* C5: with MediaItem not lazy, no hook, and the referenced ids disjoint from
\* the record ids, every id referenced by a non-media record is in the array
\* written under CREATED_NODE_IDS exactly once, was passed to the one call of
\* the expansion pass exactly once, and no MediaItem fetch was issued by the
\* orchestrator.
C5_ReferencedMediaOnce ==
    (/\ cacheSetCalls > 0
     /\ ~MediaItemLazyNodes
     /\ NoHooks
     /\ ReferencedByRecords \cap RecordIds = {})
    => \A id \in ReferencedByRecords :
          /\ Count(cacheArg, id) = 1
          /\ expansionCalls = 1
          /\ Count(expansionArg, id) = 1
          /\ fetchCalls["MediaItem"] = 0

\* m1 is referenced by both post records and is in the written ledger
C5_Witness ==
    /\ pc = "done"
    /\ ~MediaItemLazyNodes /\ NoHooks
    /\ ~settings["MediaItem"].exclude
    /\ ReferencedByRecords \cap RecordIds = {}
    /\ Cardinality({i \in 1..Len(units) : "m1" \in Range(matchedIds(units[i].node))}) = 2
    /\ "m1" \in Range(cacheArg)
    /\ "m2" \in Range(cacheArg)

(***************************************************************************)
(* C6                                                                      *)
(***************************************************************************)
\* C6: at most 2 units are in flight at any moment, counted over the units of
\* all groups together, and a step that starts a unit while 2 are in flight
\* is a step in which one of the in-flight units settles.
C6_AtMostTwoInFlight ==
    /\ [](PendingCount(ust) <= 2)
    /\ [][(Len(started') > Len(started) /\ PendingCount(ust) = 2)
            => \E i \in 1..Len(ust) :
                  /\ ust[i] \in {"hook", "createNode"}
                  /\ ust'[i] \in {"done", "failed"}]_vars

\* two units of different groups in flight while a third one waits
C6_Witness ==
    /\ PendingCount(ust) = 2
    /\ Queued(ust) # {}
    /\ \E i, j \in 1..Len(ust) :
         /\ ust[i] \in {"hook", "createNode"}
         /\ ust[j] \in {"hook", "createNode"}
         /\ units[i].plural # units[j].plural

(***************************************************************************)
(* C7                                                                      *)
(***************************************************************************)
\* C7: a type-level fetch of a chunk has been started only if every fetch of
\* every earlier chunk has completed, and the number of type-level fetches in
\* flight never exceeds the batch size.
C7_BatchJoin ==
    /\ Cardinality(InFlightFetches)
         <= (IF env = NoEnv THEN DefaultChunkSize ELSE env)
    /\ \A t, e \in TypeNames :
         (fetchCalls[t] > 0 /\ BatchOf(e) # 0 /\ BatchOf(e) < BatchOf(t))
            => fetch[e].st \in {"done", "skipped"}

\* the second chunk is in flight after a first chunk of two fetched types
C7_Witness ==
    /\ env = 2
    /\ batchIdx = 2
    /\ fetch["Tag"].st = "inflight"
    /\ fetch["Post"].st = "done"
    /\ fetch["Page"].st = "done"
    /\ BatchOf("Post") = 1 /\ BatchOf("Page") = 1 /\ BatchOf("Tag") = 2

(***************************************************************************)
(* C8                                                                      *)
(***************************************************************************)
\* C8: no update is lost.  Without hooks and without a failed unit, once the
\* queue has drained the ledger holds each record id as many times as records
\* with that id were scheduled and nothing else, and the reference set holds
\* every id matched by the scan of a unit that scans.
C8_NoLostUpdate ==
    (/\ pc \in {"onIdle", "expanding", "cacheSet", "done"}
     /\ AllUnitsSettled
     /\ ~SomeUnitFailed
     /\ NoHooks)
    => /\ Len(createdNodeIds) = Len(units)
       /\ \A i \in 1..Len(units) :
            Count(createdNodeIds, units[i].node.id)
              = Cardinality({j \in 1..Len(units) : units[j].node.id = units[i].node.id})
       /\ \A i \in 1..Len(units) :
            (units[i].plural # "mediaItems" /\ ~MediaItemLazyNodes)
               => Range(matchedIds(units[i].node)) \subseteq
                    Range(referencedMediaItemNodeIds)

\* four units of three groups drained, the last started one finishing first
C8_Witness ==
    /\ pc = "onIdle"
    /\ Len(units) = 4
    /\ AllUnitsSettled /\ ~SomeUnitFailed /\ NoHooks
    /\ ~MediaItemLazyNodes
    /\ createdNodeIds[1] # units[1].node.id
    /\ Len(referencedMediaItemNodeIds) = 3


(***************************************************************************)
(* C9                                                                      *)
(***************************************************************************)
\* a non-media unit that has started and whose record matches the pattern
StartedWithMatches(i) ==
    /\ i \in Range(started)
    /\ units[i].plural # "mediaItems"
    /\ matchedIds(units[i].node) # <<>>

\* C9 as stated: the scan is skipped when MediaItem is not lazy, so that ids
\* are added to the reference set only when MediaItem.lazyNodes is true.
C9_ScanOnlyWhenLazy ==
    ~MediaItemLazyNodes => referencedMediaItemNodeIds = <<>>

\* C9 amended: the scan is skipped when MediaItem.lazyNodes is true, where the
\* reference set stays empty; when it is false every started non-media unit
\* has added the ids its record matches.
C9_ScanOnlyWhenNotLazy ==
    /\ MediaItemLazyNodes => referencedMediaItemNodeIds = <<>>
    /\ ~MediaItemLazyNodes =>
         \A i \in 1..Len(units) :
            StartedWithMatches(i) =>
               Range(matchedIds(units[i].node)) \subseteq
                 Range(referencedMediaItemNodeIds)

\* lazy MediaItem: records with matches were materialized, nothing was added
C9_Witness ==
    /\ pc = "done"
    /\ MediaItemLazyNodes
    /\ \E i \in 1..Len(units) : StartedWithMatches(i) /\ ust[i] = "done"
    /\ referencedMediaItemNodeIds = <<>>

(***************************************************************************)
(* C10                                                                     *)
(***************************************************************************)
\* the expansion pass did not run and the ledger is returned as it is
ExpansionIsNoOp ==
    /\ expansionCalls = 0
    /\ cacheSetCalls > 0 => cacheArg = createdNodeIds

\* the expansion pass ran once over the reference set, whose ids follow the
\* ledger in the returned array
ExpansionRan ==
    /\ expansionCalls = 1
    /\ expansionArg = referencedMediaItemNodeIds
    /\ cacheSetCalls > 0 => cacheArg = createdNodeIds \o referencedMediaItemNodeIds

\* C10 as stated: the expansion pass is a no-op when MediaItem is not lazy and
\* the reference set is empty, and in every other case it is run over the
\* reference set.
C10_NoOpOnlyWhenEagerAndEmpty ==
    IdleDecided =>
        IF ~MediaItemLazyNodes /\ referencedMediaItemNodeIds = <<>>
        THEN ExpansionIsNoOp
        ELSE ExpansionRan

\* C10 amended: the expansion pass is run, once and over every id of the
\* reference set, exactly when MediaItem is not lazy and the reference set is
\* not empty; it is a no-op when the set is empty or MediaItem is lazy.
C10_RunsWhenEagerAndNonEmpty ==
    IdleDecided =>
        IF ~MediaItemLazyNodes /\ referencedMediaItemNodeIds # <<>>
        THEN ExpansionRan
        ELSE ExpansionIsNoOp

\* a run whose written ledger is the record ids followed by two referenced ids
C10_Witness ==
    /\ pc = "done"
    /\ ~MediaItemLazyNodes
    /\ Len(referencedMediaItemNodeIds) = 2
    /\ Len(createdNodeIds) = 3
    /\ ExpansionRan


(***************************************************************************)
(* C11                                                                     *)
(***************************************************************************)
\* the place of a key in the sorted key order
KeyPos(k) == CHOOSE n \in 1..Len(KeyOrder) : KeyOrder[n] = k

\* an object serialized as {..."id":"<id>","sourceUrl":...}: it has both
\* keys and no key that sorts between them
HasReferenceShape(o) ==
    /\ {"id", "sourceUrl"} \subseteq o.keys
    /\ ~\E k \in o.keys : KeyPos("id") < KeyPos(k) /\ KeyPos(k) < KeyPos("sourceUrl")

\* the ids of the objects of that shape in a record, its own id left out
ForeignReferences(node) ==
    {node.objs[n].id : n \in {m \in 1..Len(node.objs) : HasReferenceShape(node.objs[m])}}
       \ {node.id}

\* the non-media units whose scan has run
ScannedUnits ==
    {i \in Range(started) : units[i].plural # "mediaItems" /\ ~MediaItemLazyNodes}

\* C11: the reference set holds exactly the ids of the objects shaped
\* {"id":"<id>","sourceUrl":...} in the records scanned so far, each record's
\* own id left out of its own scan, and holds each id once.
C11_ScanAddsForeignMatches ==
    /\ Range(referencedMediaItemNodeIds)
         = UNION {ForeignReferences(units[i].node) : i \in ScannedUnits}
    /\ Len(referencedMediaItemNodeIds) = Cardinality(Range(referencedMediaItemNodeIds))

\* p1 (m1 and a self-reference) and p2 (m1 again) were scanned, then g1 (m2):
\* the set is m1, m2; p1 is not in it
C11_Witness ==
    /\ ScannedUnits = {1, 2, 3}
    /\ units[1].node.id = "p1" /\ units[2].node.id = "p2" /\ units[3].node.id = "g1"
    /\ referencedMediaItemNodeIds = <<"m1", "m2">>


(***************************************************************************)
(* C12                                                                     *)
(***************************************************************************)
\* how often id occurs in what the hook invocations of units 1..n resolved to
RECURSIVE HookReturnedCount(_, _)
HookReturnedCount(id, n) ==
    IF n = 0 THEN 0
    ELSE Count(Flatten(calls[n].hookReturned), id) + HookReturnedCount(id, n - 1)

RECURSIVE HookReturnedTotal(_)
HookReturnedTotal(n) ==
    IF n = 0 THEN 0
    ELSE Len(Flatten(calls[n].hookReturned)) + HookReturnedTotal(n - 1)

HookIds == UNION {Range(r) : r \in HookResults}

DoneUnits == {i \in 1..Len(ust) : ust[i] = "done"}

\* C12: every id of the additionalNodeIds a hook invocation resolved to is in
\* the ledger once per invocation that returned it, duplicates kept, next to
\* the own ids of the records committed.
C12_HookIdsPerInvocation ==
    /\ \A id \in HookIds :
         Count(createdNodeIds, id) = HookReturnedCount(id, Len(calls))
    /\ Len(createdNodeIds) = HookReturnedTotal(Len(calls)) + Cardinality(DoneUnits)

\* the hook returned [a, b] for both post records: a and b are there twice
C12_Witness ==
    /\ pc = "done"
    /\ Len(units) >= 2
    /\ calls[1].hookReturned = << <<"a", "b">> >>
    /\ calls[2].hookReturned = << <<"a", "b">> >>
    /\ ust[1] = "done" /\ ust[2] = "done"
    /\ Count(cacheArg, "a") = 2 /\ Count(cacheArg, "b") = 2
    /\ Count(cacheArg, "p1") = 1 /\ Count(cacheArg, "p2") = 1


(***************************************************************************)
(* C13                                                                     *)
(***************************************************************************)
GroupsOf(t) ==
    {k \in 1..Len(contentNodeGroups) : contentNodeGroups[k].plural = pluralName(t)}

\* C13: a type has at most one group in the orchestrator's array; it has one
\* exactly when its fetch has finished with at least one record, and that
\* group holds the records of all its list queries, in list-query order; a
\* type that yielded no record has none.
C13_OneGroupPerNonEmptyType ==
    \A t \in TypeNames :
        /\ Cardinality(GroupsOf(t)) <= 1
        /\ fetch[t].st # "done" => GroupsOf(t) = {}
        /\ fetch[t].st = "done" =>
             /\ Len(returned[t]) = Len(nodeListQueries(t))
             /\ IF Flatten(returned[t]) = <<>>
                THEN GroupsOf(t) = {}
                ELSE \E k \in GroupsOf(t) :
                        contentNodeGroups[k].allNodesOfContentType = Flatten(returned[t])

\* Tag yielded nothing and has no group, Post has one group with the records
\* of its two list queries, and the run went on to its end
C13_Witness ==
    /\ pc = "done"
    /\ fetch["Tag"].st = "done" /\ returned["Tag"] = << <<>> >>
    /\ GroupsOf("Tag") = {}
    /\ fetch["Post"].st = "done"
    /\ \E k \in GroupsOf("Post") :
          contentNodeGroups[k].allNodesOfContentType = <<p1, p2>>


(***************************************************************************)
(* C14                                                                     *)
(***************************************************************************)
FailedFetches == {t \in TypeNames : fetch[t].st = "failed"}

\* C14: once a type-level fetch has rejected the run has failed: the chunk of
\* the failed fetch is the last one started, no unit is scheduled, the
\* expansion pass and cache.set are not called, and the rejected list query
\* is the last call made for its type (no retry).
C14_FetchFailureFailsRun ==
    FailedFetches # {} =>
        /\ pc = "failed"
        /\ units = <<>> /\ ust = <<>> /\ started = <<>>
        /\ expansionCalls = 0
        /\ cacheSetCalls = 0
        /\ \A t \in FailedFetches :
             /\ batchIdx = BatchOf(t)
             /\ fetchCalls[t] = fetch[t].q
        /\ \A e \in TypeNames : BatchOf(e) > batchIdx => fetchCalls[e] = 0

\* the second list query of Post rejected in the first of two chunks; Page, of
\* the same chunk, finished afterwards; Tag, of the second chunk, is untouched
C14_Witness ==
    /\ pc = "failed"
    /\ fetch["Post"].st = "failed" /\ fetch["Post"].q = 2
    /\ fetch["Page"].st = "done" /\ BatchOf("Page") = 1
    /\ BatchOf("Tag") = 2 /\ ~SkipsFetch("Tag")
    /\ fetch["Tag"].st = "idle"


(***************************************************************************)
(* C15                                                                     *)
(***************************************************************************)
\* C15: in every unit the hook, where one is configured, is called once and
\* has resolved before createNode is called, createNode is called at most
\* once, and the ledger holds a record's own id only for units whose
\* createNode call has resolved.
C15_UnitStepOrder ==
    \A i \in 1..Len(units) :
        /\ calls[i].hook = (IF HasHook(units[i].node) /\ i \in Range(started)
                            THEN 1 ELSE 0)
        /\ calls[i].createNode <= 1
        /\ (calls[i].createNode = 1 /\ HasHook(units[i].node))
              => Len(calls[i].hookReturned) = 1
        /\ ust[i] = "done" => calls[i].createNode = 1
        /\ Count(createdNodeIds, units[i].node.id)
             = Cardinality({j \in DoneUnits : units[j].node.id = units[i].node.id})

\* p1, with a hook that returned a and b, is committed and in the ledger
\* behind a and b; p2 waits for its createNode call and is not in the ledger
C15_Witness ==
    /\ Len(units) >= 2
    /\ HasHook(units[1].node)
    /\ ust[1] = "done" /\ ust[2] = "createNode"
    /\ createdNodeIds = <<"a", "b", "p1">>
    /\ calls[2].hookReturned = << <<>> >>


(***************************************************************************)
(* C16                                                                     *)
(***************************************************************************)
\* the batch size the environment asks for
BatchSize == IF env = NoEnv THEN DefaultChunkSize ELSE env

\* the types whose map callback ran in chunk b, and those of them fetched
TypesOfBatch(b) == {t \in TypeNames : fetchBatch[t] = b}

FetchedOfBatch(b) == {t \in TypesOfBatch(b) : fetchCalls[t] > 0}

\* the catalog entries left by the exclude filter alone
NotExcluded == SelectSeq(CatalogOrder, LAMBDA t : ~settings[t].exclude)

\* C16 as stated: every chunk but the last one holds exactly batch-size types
\* that are fetched, and no skipped (lazy or media) type takes a slot of a
\* chunk.
C16_BatchesOfFetchedTypes ==
    /\ \A b \in 1..(batchIdx - 1) : Cardinality(FetchedOfBatch(b)) = BatchSize
    /\ \A t \in TypeNames : fetchBatch[t] # 0 => fetch[t].st # "skipped"

\* C16 amended: the chunks are cut from the entries left by the exclude filter
\* alone: chunk b holds entries (b-1)*size+1 .. b*size of them, exactly
\* batch-size entries in every chunk but the last; the lazy and media types
\* among them take a slot and are skipped inside the chunk, so the types
\* fetched in a chunk are its entries that are neither lazy nor MediaItem.
C16_BatchesOfNotExcludedTypes ==
    \A b \in 1..batchIdx :
        /\ TypesOfBatch(b) =
             {NotExcluded[n] : n \in ((b - 1) * BatchSize + 1)
                                      ..Min(b * BatchSize, Len(NotExcluded))}
        /\ b < batchIdx => Cardinality(TypesOfBatch(b)) = BatchSize
        /\ FetchedOfBatch(b) =
             {t \in TypesOfBatch(b) : ~settings[t].lazyNodes /\ t # "MediaItem"}

\* batch size 2: the first chunk is Post and MediaItem, of which only Post is
\* fetched, and the second chunk has started
C16_Witness ==
    /\ env = 2
    /\ batchIdx = 2
    /\ TypesOfBatch(1) = {"Post", "MediaItem"}
    /\ FetchedOfBatch(1) = {"Post"}
    /\ FetchedOfBatch(2) = {"Page", "Tag"}


(***************************************************************************)
(* C17                                                                     *)
(***************************************************************************)
\* the records of the groups, in group iteration order and record order
ScheduledRecords ==
    Flatten([g \in 1..Len(contentNodeGroups) |->
               contentNodeGroups[g].allNodesOfContentType])

\* C17: the units start in the order they were scheduled: the k-th unit to
\* start is the unit of the k-th record in group iteration order.  (That the
\* ledger need not follow that order is what the witness shows.)
C17_StartInScheduleOrder ==
    /\ units # <<>> => Len(units) = Len(ScheduledRecords)
    /\ \A k \in 1..Len(started) :
         /\ started[k] = k
         /\ units[started[k]].node = ScheduledRecords[k]

\* p1 was scheduled and started before p2, and p2 is in the ledger before p1
C17_Witness ==
    /\ Len(units) >= 2
    /\ started[1] = 1 /\ started[2] = 2
    /\ units[1].node.id = "p1" /\ units[2].node.id = "p2"
    /\ Len(createdNodeIds) >= 2
    /\ createdNodeIds[1] = "p2" /\ createdNodeIds[2] = "p1"


(***************************************************************************)
(* C18                                                                     *)
(***************************************************************************)
\* The run when every external call returns successfully: the steps of Next
\* without the rejections.
NextOk ==
    \/ StartBatch
    \/ \E t \in TypeNames : FetchReturn(t)
    \/ FetchingDone
    \/ GeneralSettingsReturn
    \/ \E i \in 1..Len(ust) : HookReturn(i)
    \/ \E i \in 1..Len(ust) : CreateNodeReturn(i)
    \/ QueueIdle
    \/ ExpansionReturn
    \/ CacheSetReturn

\* Every call that is in flight eventually returns, and the event loop runs a
\* continuation that is ready: some enabled step is eventually taken.
SpecLive == Init /\ [][NextOk]_vars /\ WF_vars(NextOk)

\* every scheduled unit has been started and has run to its end
EveryUnitRan ==
    /\ Len(started) = Len(units)
    /\ \A i \in 1..Len(units) : ust[i] = "done"

\* C18: when every external call returns successfully, every scheduled unit
\* eventually runs, the queue eventually drains, and the run eventually writes
\* CREATED_NODE_IDS, exactly once.
C18_RunCompletes ==
    /\ <>(/\ pc = "done"
          /\ EveryUnitRan
          /\ QueueIsIdle
          /\ cacheSetCalls = 1)
    /\ [](cacheSetCalls <= 1)

\* a finished run in which more units were scheduled than the queue runs at once
C18_Witness ==
    /\ pc = "done"
    /\ cacheSetCalls = 1
    /\ Len(units) > Concurrency
    /\ EveryUnitRan


(***************************************************************************)
(* C19                                                                     *)
(***************************************************************************)
\* the hook of unit i was called and did not resolve
HookFailed(i) ==
    /\ ust[i] = "failed"
    /\ HasHook(units[i].node)
    /\ calls[i].hookReturned = <<>>

\* C19: the own id of a record whose hook or createNode call failed is not in
\* the ledger, and createNode was not called for it if it was the hook that
\* failed; the failure does not stop the queue: while units are queued both
\* slots are taken, and every unit that has succeeded is in the ledger.
C19_FailureIsLocal ==
    /\ \A i \in 1..Len(units) :
         ust[i] = "failed" =>
            /\ Count(createdNodeIds, units[i].node.id) = 0
            /\ HookFailed(i) => calls[i].createNode = 0
    /\ SomeUnitFailed =>
         /\ Queued(ust) # {} => PendingCount(ust) = Concurrency
         /\ \A j \in DoneUnits : Count(createdNodeIds, units[j].node.id) = 1

\* the hook of p1 and the createNode call of p2 failed, both slots were handed
\* on, and the two units queued behind them are committed and in the ledger
C19_Witness ==
    /\ Len(units) = 4
    /\ HookFailed(1)
    /\ ust[2] = "failed" /\ calls[2].createNode = 1
    /\ ust[3] = "done" /\ ust[4] = "done"
    /\ Count(createdNodeIds, units[3].node.id) = 1
    /\ Count(createdNodeIds, units[4].node.id) = 1
    /\ Count(createdNodeIds, "p1") = 0 /\ Count(createdNodeIds, "p2") = 0
    /\ pc = "done"


(***************************************************************************)
(* C20                                                                     *)
(***************************************************************************)
\* the chunk of the type that produced the k-th group
GroupBatch(k) == BatchOf(contentNodeGroups[k].singular)

\* C20: in the orchestrator's list the groups of a chunk precede the groups
\* of every later chunk and a type has at most one group; the list changes
\* only when a type's fetch completes, by that type's group being appended at
\* its end, so that within a chunk the groups are in fetch-completion order.
C20_GroupsInBatchOrder ==
    /\ [](/\ \A k, l \in 1..Len(contentNodeGroups) :
               k < l => /\ GroupBatch(k) <= GroupBatch(l)
                        /\ contentNodeGroups[k].singular # contentNodeGroups[l].singular
          /\ \A k \in 1..Len(contentNodeGroups) : GroupBatch(k) \in 1..batchIdx)
    /\ [][contentNodeGroups' # contentNodeGroups =>
            \E t \in TypeNames :
               /\ fetch[t].st = "inflight" /\ fetch'[t].st = "done"
               /\ contentNodeGroups' =
                    Append(contentNodeGroups,
                           [singular |-> t, plural |-> pluralName(t),
                            allNodesOfContentType |-> fetch'[t].nodes])]_vars

\* one chunk of Post, Page and Tag whose fetches completed in the reverse of
\* the catalog order, and the run went on with the groups in that order
C20_Witness ==
    /\ pc = "done"
    /\ BatchOf("Post") = 1 /\ BatchOf("Page") = 1 /\ BatchOf("Tag") = 1
    /\ Len(contentNodeGroups) = 3
    /\ contentNodeGroups[1].singular = "Tag"
    /\ contentNodeGroups[2].singular = "Page"
    /\ contentNodeGroups[3].singular = "Post"
    /\ units[1].node.id = "t1" /\ units[4].node.id = "p2"

====
